---- MODULE Spec2Model ----
(***************************************************************************)
(* aiohttp_apispec/decorators.py: the three decorators docs, use_kwargs    *)
(* and marshal_with, applied to one handler function.                      *)
(*                                                                         *)
(* The handler is modelled by its attribute dictionary `func`: the keys    *)
(* present are the attributes hasattr() finds ("__apispec__", the doc      *)
(* record, and "__schemas__", the schema list).  Every action is one       *)
(* decorator built and applied to the handler (`@docs(...)` above a        *)
(* function definition), so each application gets fresh argument objects.  *)
(* `call` records the latest application: its arguments, the options it    *)
(* handed to schema2parameters, and whether it raised.  `applied` counts   *)
(* the use_kwargs applications that returned.                              *)
(*                                                                         *)
(* Python values: a dict is a function on its keys, a list is a sequence,  *)
(* an optional value is None or Some(v).                                   *)
(***************************************************************************)
EXTENDS Naturals, Sequences, FiniteSets, TLC

VARIABLES func, call, applied

vars == <<func, call, applied>>

----------------------------------------------------------------------------
(* Bounds of the model *)

\* the longest `parameters` list use_kwargs may build
MaxParams == 2

\* the longest schema list
MaxSchemas == 2

----------------------------------------------------------------------------
(* Python values *)

None == <<>>

Some(v) == <<v>>

\* bool(x) of an optional list: None and [] are false
TruthyList(o) == o # None /\ Len(o[1]) > 0

\* bool(x) of an optional string: None and "" are false
TruthyStr(o) == o # None /\ o[1] # ""

EmptyDict == [k \in {} |-> None]

\* d.get(k)
Get(d, k) == IF k \in DOMAIN d THEN Some(d[k]) ELSE None

\* d[k] = v
SetItem(d, k, v) == [x \in DOMAIN d \cup {k} |-> IF x = k THEN v ELSE d[x]]

\* a faulty update: the keys the dict already has keep their values
Update_SetDefault(d, kw) ==
    [k \in DOMAIN d \cup DOMAIN kw |-> IF k \in DOMAIN d THEN d[k] ELSE kw[k]]

\* d.update(kw)
Update(d, kw) ==
    [k \in DOMAIN d \cup DOMAIN kw |-> IF k \in DOMAIN kw THEN kw[k] ELSE d[k]]

Digit(d) == <<"0", "1", "2", "3", "4", "5", "6", "7", "8", "9">>[d + 1]

RECURSIVE Str(_)
\* '%s' % code, for a natural number
Str(n) == IF n < 10 THEN Digit(n) ELSE Str(n \div 10) \o Digit(n % 10)

----------------------------------------------------------------------------
(* Inputs *)

\* A schema argument: a Schema instance, or a callable (a Schema class)
\* that builds one.
Schemas ==
    { [callable |-> FALSE, id |-> "User"],
      [callable |-> TRUE,  id |-> "Item"],
      [callable |-> FALSE, id |-> "Empty"],
      [callable |-> FALSE, id |-> "Bad"] }

\* the `locations` argument of use_kwargs
LocationsArgs == { None, Some(<<>>), Some(<<"query", "header">>) }

\* the **kwargs of use_kwargs
UseKwargsKwargs ==
    { EmptyDict,
      [location |-> "body"],
      [location |-> ""],
      [location |-> "body", required |-> TRUE] }

\* the **kwargs of docs
DocsKwargs ==
    { EmptyDict,
      [tags |-> <<"a">>],
      [tags |-> <<"b">>, summary |-> "s"],
      [produces |-> <<"text/html">>, docked |-> [route |-> TRUE]],
      [parameters |-> <<>>, responses |-> EmptyDict] }

Codes == {200, 404}

Descriptions == { None, Some(""), Some("Not found") }

----------------------------------------------------------------------------
(* The collaborator apispec.ext.marshmallow.swagger.schema2parameters.     *)
(* It either raises or returns a list of parameter descriptors; the        *)
(* descriptors carry the `required` and `default_in` options it was given. *)

Raised == [raised |-> TRUE, value |-> <<>>]

Returned(v) == [raised |-> FALSE, value |-> v]

schema2parameters(schema, options) ==
    LET in == IF "default_in" \in DOMAIN options THEN options.default_in ELSE "body"
        req == options.required
    IN  CASE schema.id = "User" ->
               Returned(<< [name |-> "body", in |-> in, required |-> req,
                            schema |-> "User", description |-> "a user"] >>)
          [] schema.id = "Item" ->
               Returned(<< [name |-> "id", in |-> in, required |-> req,
                            schema |-> "Item", headers |-> "X-Item"],
                           [name |-> "name", in |-> in, required |-> req,
                            type |-> "string"] >>)
          [] schema.id = "Empty" -> Returned(<<>>)
          [] OTHER -> Raised

----------------------------------------------------------------------------
(* Shared pieces of the decorators *)

\* hasattr(func, name)
hasattr(f, name) == name \in DOMAIN f

\* if callable(schema): schema = schema()
Instance(schema) ==
    IF schema.callable THEN [callable |-> FALSE, id |-> schema.id] ELSE schema

NewRecord == [parameters |-> <<>>, responses |-> EmptyDict, docked |-> EmptyDict]

\* a faulty creation: the schema list is created along with the doc record
EnsureApispec_AndSchemas(f) ==
    LET f1 == IF "__apispec__" \in DOMAIN f THEN f ELSE SetItem(f, "__apispec__", NewRecord)
    IN  IF "__schemas__" \in DOMAIN f1 THEN f1 ELSE SetItem(f1, "__schemas__", <<>>)

\* if not hasattr(func, '__apispec__'): func.__apispec__ = {...}
EnsureApispec(f) ==
    IF hasattr(f, "__apispec__") THEN f ELSE SetItem(f, "__apispec__", NewRecord)

\* if not hasattr(func, '__schemas__'): func.__schemas__ = []
EnsureSchemas(f) ==
    IF hasattr(f, "__schemas__") THEN f ELSE SetItem(f, "__schemas__", <<>>)

----------------------------------------------------------------------------
\* docs(**kwargs) applied to the handler

Produces == <<"application/json">>

Docked == [route |-> FALSE]

\* a faulty docs: produces and docked are forced before the update, so the
\* caller's own `produces` and `docked` keys survive
DocsRecord_KwargsLast(record, kwargs) ==
    Update(SetItem(SetItem(record, "produces", Produces), "docked", Docked), kwargs)

\* lines 24-28: the doc record after docs
DocsRecord(record, kwargs) ==
    LET kw == SetItem(kwargs, "produces", Produces)
    IN  SetItem(Update(record, kw), "docked", Docked)

docs(kwargs) ==
    LET f1 == EnsureApispec(func)
    IN  /\ func' = SetItem(f1, "__apispec__", DocsRecord(f1["__apispec__"], kwargs))
        /\ call' = [op |-> "docs", args |-> [kwargs |-> kwargs],
                    passed |-> None, raised |-> FALSE]
        /\ UNCHANGED applied

----------------------------------------------------------------------------
\* use_kwargs(schema, locations=None, **kwargs) applied to the handler

\* a faulty resolution: the legacy `location` wins over `locations`
Locations_LegacyFirst(locations, kwargs) ==
    LET legacy == Get(kwargs, "location")
    IN  IF TruthyStr(legacy) THEN Some(<<legacy[1]>>)
        ELSE IF TruthyList(locations) THEN locations
        ELSE None

\* lines 66-72: the resolved locations, None or Some(list)
Locations(locations, kwargs) ==
    LET given == IF TruthyList(locations) THEN locations[1] ELSE <<>>
        legacy == Get(kwargs, "location")
    IN  IF Len(given) > 0 THEN Some(given)
        ELSE IF TruthyStr(legacy) THEN Some(<<legacy[1]>>)
        ELSE None

\* lines 74-76: the options handed to schema2parameters
Options(locations, kwargs) ==
    LET required == IF "required" \in DOMAIN kwargs THEN kwargs.required ELSE FALSE
        resolved == Locations(locations, kwargs)
    IN  IF TruthyList(resolved)
        THEN [required |-> required, default_in |-> resolved[1][1]]
        ELSE [required |-> required]

\* a faulty wrapper: the new descriptors go in front of the old ones
UseKwargsFunc_Prepend(f, schema, resolved, parameters) ==
    LET f1 == EnsureApispec(f)
        record == f1["__apispec__"]
        f2 == SetItem(f1, "__apispec__",
                      SetItem(record, "parameters", parameters \o record.parameters))
        f3 == EnsureSchemas(f2)
    IN  SetItem(f3, "__schemas__",
                Append(f3["__schemas__"], [schema |-> schema, locations |-> resolved]))

\* lines 80-85: the handler after the wrapper of use_kwargs
UseKwargsFunc(f, schema, resolved, parameters) ==
    LET f1 == EnsureApispec(f)
        record == f1["__apispec__"]
        f2 == SetItem(f1, "__apispec__",
                      SetItem(record, "parameters", record.parameters \o parameters))
        f3 == EnsureSchemas(f2)
    IN  SetItem(f3, "__schemas__",
                Append(f3["__schemas__"], [schema |-> schema, locations |-> resolved]))

\* a faulty use_kwargs: the doc record is created before the conversion
use_kwargs_RecordFirst(schema, locations, kwargs) ==
    LET inst == Instance(schema)
        resolved == Locations(locations, kwargs)
        options == Options(locations, kwargs)
        result == schema2parameters(inst, options)
        this == [op |-> "use_kwargs",
                 args |-> [schema |-> schema, locations |-> locations, kwargs |-> kwargs],
                 passed |-> Some(options), raised |-> result.raised]
    IN  IF result.raised
        THEN /\ call' = this
             /\ func' = EnsureApispec(func)
             /\ UNCHANGED applied
        ELSE /\ Len(EnsureApispec(func)["__apispec__"].parameters) + Len(result.value)
                    <= MaxParams
             /\ Len(EnsureSchemas(func)["__schemas__"]) < MaxSchemas
             /\ func' = UseKwargsFunc(func, inst, resolved, result.value)
             /\ call' = this
             /\ applied' = applied + 1

use_kwargs(schema, locations, kwargs) ==
    LET inst == Instance(schema)
        resolved == Locations(locations, kwargs)
        options == Options(locations, kwargs)
        result == schema2parameters(inst, options)
        this == [op |-> "use_kwargs",
                 args |-> [schema |-> schema, locations |-> locations, kwargs |-> kwargs],
                 passed |-> Some(options), raised |-> result.raised]
    IN  IF result.raised
        THEN /\ call' = this
             /\ UNCHANGED <<func, applied>>
        ELSE /\ Len(EnsureApispec(func)["__apispec__"].parameters) + Len(result.value)
                    <= MaxParams
             /\ Len(EnsureSchemas(func)["__schemas__"]) < MaxSchemas
             /\ func' = UseKwargsFunc(func, inst, resolved, result.value)
             /\ call' = this
             /\ applied' = applied + 1

----------------------------------------------------------------------------
(* marshal_with(schema, code=200, required=False, description=None)        *)
(* applied to the handler                                                  *)

\* a faulty whitelist: `name` passes too
valid_response_fields_WithName == {"schema", "description", "headers", "examples", "name"}

valid_response_fields == {"schema", "description", "headers", "examples"}

\* a faulty overlay: a description the collaborator produced is kept
Response_KeepCollaborator(raw_parameters, description) ==
    LET parameters == [k \in DOMAIN raw_parameters \cap valid_response_fields
                         |-> raw_parameters[k]]
    IN  IF TruthyStr(description) /\ "description" \notin DOMAIN parameters
        THEN SetItem(parameters, "description", description[1])
        ELSE parameters

\* lines 124-126: the stored response descriptor
Response(raw_parameters, description) ==
    LET parameters == [k \in DOMAIN raw_parameters \cap valid_response_fields
                         |-> raw_parameters[k]]
    IN  IF TruthyStr(description)
        THEN SetItem(parameters, "description", description[1])
        ELSE parameters

\* a faulty store: the new descriptor is merged into the entry already there
StoreResponse_Merge(record, code, parameters) ==
    LET key == Str(code)
        old == IF key \in DOMAIN record.responses THEN record.responses[key] ELSE EmptyDict
    IN  SetItem(record, "responses", SetItem(record.responses, key, Update(old, parameters)))

\* line 127: func.__apispec__['responses']['%s' % code] = parameters
StoreResponse(record, code, parameters) ==
    SetItem(record, "responses", SetItem(record.responses, Str(code), parameters))

marshal_with(schema, code, required, description) ==
    LET inst == Instance(schema)
        f1 == EnsureApispec(func)
        options == [required |-> required]
        result == schema2parameters(inst, options)
        \* schema2parameters raises, or [0] of an empty list raises IndexError
        fails == result.raised \/ Len(result.value) = 0
        record == f1["__apispec__"]
        this == [op |-> "marshal_with",
                 args |-> [schema |-> schema, code |-> code, required |-> required,
                           description |-> description],
                 passed |-> Some(options), raised |-> fails]
    IN  /\ call' = this
        /\ UNCHANGED applied
        /\ IF fails
           THEN func' = f1
           ELSE func' = SetItem(f1, "__apispec__",
                          StoreResponse(record, code,
                                        Response(result.value[1], description)))

----------------------------------------------------------------------------
(* The handler as defined, before any decorator is applied *)

Init ==
    /\ func = EmptyDict
    /\ call = [op |-> "def", args |-> EmptyDict, passed |-> None, raised |-> FALSE]
    /\ applied = 0

\* One decorator is built and applied to the handler.  The arguments are
\* drawn from the sets given; the schema argument always ranges over Schemas.
Decorate(docsKwargs, locationsArgs, useKwargs, codes, requireds, descriptions) ==
    \/ \E kwargs \in docsKwargs : docs(kwargs)
    \/ \E schema \in Schemas, locations \in locationsArgs, kwargs \in useKwargs :
          use_kwargs(schema, locations, kwargs)
    \/ \E schema \in Schemas, code \in codes, required \in requireds,
          description \in descriptions :
          marshal_with(schema, code, required, description)

\* every docs keyword set; the schema decorators with their default arguments
Next == Decorate(DocsKwargs, {None}, {EmptyDict}, {200}, {FALSE}, {None})

Spec == Init /\ [][Next]_vars

\* every use_kwargs argument; docs and marshal_with with their defaults
NextRequest ==
    Decorate({EmptyDict}, LocationsArgs, UseKwargsKwargs, {200}, {FALSE}, {None})

SpecRequest == Init /\ [][NextRequest]_vars

\* every marshal_with argument; docs and use_kwargs with their defaults
NextResponse ==
    Decorate({EmptyDict}, {None}, {EmptyDict}, Codes, BOOLEAN, Descriptions)

SpecResponse == Init /\ [][NextResponse]_vars

----------------------------------------------------------------------------
(* Reading the handler's records.  A record that does not exist yet has no *)
(* entries.                                                                *)

HasRecord(f) == "__apispec__" \in DOMAIN f

HasSchemas(f) == "__schemas__" \in DOMAIN f

ParametersOf(f) == IF HasRecord(f) THEN f["__apispec__"].parameters ELSE <<>>

ResponsesOf(f) == IF HasRecord(f) THEN f["__apispec__"].responses ELSE EmptyDict

SchemasOf(f) == IF HasSchemas(f) THEN f["__schemas__"] ELSE <<>>

IsPrefix(s, t) == Len(s) <= Len(t) /\ SubSeq(t, 1, Len(s)) = s

\* the keys docs forces, whatever the caller gave
Forced == {"produces", "docked"}

\* what schema2parameters returned to the latest application c
Converted(c) ==
    LET schema == c.args.schema
        inst == IF schema.callable THEN [callable |-> FALSE, id |-> schema.id] ELSE schema
    IN  schema2parameters(inst, c.passed[1]).value

----------------------------------------------------------------------------
(* docs *)

\* C1: right after docs is applied, whatever its keywords (its own
\* `produces` or `docked` included) and whatever the record held before,
\* the doc record exists with docked = {route: false} and
\* produces = ["application/json"].
C1_DocsForcesDockedAndProduces ==
    call.op = "docs" =>
        /\ HasRecord(func)
        /\ func["__apispec__"].docked = [route |-> FALSE]
        /\ func["__apispec__"].produces = <<"application/json">>

\* docs was given its own `produces` and `docked`, and both were forced
C1_Witness ==
    /\ call.op = "docs"
    /\ Forced \subseteq DOMAIN call.args.kwargs
    /\ call.args.kwargs.docked = [route |-> TRUE]
    /\ func["__apispec__"].docked = [route |-> FALSE]
    /\ func["__apispec__"].produces = <<"application/json">>

\* C2 as stated: docs(O1) directly followed by docs(O2) leaves every key of
\* O2 with O2's value and every key only O1 has with O1's value.
C2_Original ==
    [][ (call.op = "docs" /\ call'.op = "docs") =>
          LET O1 == call.args.kwargs
              O2 == call'.args.kwargs
              record == func'["__apispec__"]
          IN  /\ \A k \in DOMAIN O2 : record[k] = O2[k]
              /\ \A k \in DOMAIN O1 \ DOMAIN O2 : record[k] = O1[k] ]_vars

\* C2, amended: docs(O1) directly followed by docs(O2) leaves every key of
\* O2 other than `produces` and `docked` with O2's value and every such key
\* only O1 has with O1's value; `produces` and `docked` hold the forced
\* values.
C2_SecondDocsOverwritesByKey ==
    [][ (call.op = "docs" /\ call'.op = "docs") =>
          LET O1 == call.args.kwargs
              O2 == call'.args.kwargs
              record == func'["__apispec__"]
          IN  /\ \A k \in DOMAIN O2 \ Forced : record[k] = O2[k]
              /\ \A k \in (DOMAIN O1 \ DOMAIN O2) \ Forced : record[k] = O1[k]
              /\ record.produces = <<"application/json">>
              /\ record.docked = [route |-> FALSE] ]_vars

\* docs(tags=["a"]) has overwritten the tags of an earlier
\* docs(tags=["b"], summary="s"), whose summary is still there
C2_Witness ==
    /\ call.op = "docs"
    /\ call.args.kwargs = [tags |-> <<"a">>]
    /\ func["__apispec__"].tags = <<"a">>
    /\ "summary" \in DOMAIN func["__apispec__"]
    /\ func["__apispec__"].summary = "s"

----------------------------------------------------------------------------
(* use_kwargs *)

\* C3 as stated: use_kwargs(S, L) that returns appends the converted
\* descriptors to the end of `parameters` and the one entry
\* {schema: S, locations: L} to the end of the schema list, which so holds
\* one entry per application.
C3_Original ==
    [][ (call'.op = "use_kwargs" /\ ~call'.raised /\ call'.args.locations # None) =>
          LET a == call'.args
              S == IF a.schema.callable THEN [callable |-> FALSE, id |-> a.schema.id]
                   ELSE a.schema
          IN  /\ ParametersOf(func') = ParametersOf(func) \o Converted(call')
              /\ SchemasOf(func') =
                     Append(SchemasOf(func), [schema |-> S, locations |-> a.locations])
              /\ Len(SchemasOf(func')) = applied' ]_vars

\* C3, amended: use_kwargs(S, L) that returns appends the converted
\* descriptors to the end of `parameters` (the old entries kept, in order)
\* and one entry to the end of the schema list: {schema: S, locations: L}
\* when L is not empty; when L is empty or not given, the entry's locations
\* is the non-empty legacy `location` in a one-element list, else null.
\* The schema list holds one entry per application, in order.
C3_UseKwargsAppends ==
    [][ (call'.op = "use_kwargs" /\ ~call'.raised) =>
          LET a == call'.args
              S == IF a.schema.callable THEN [callable |-> FALSE, id |-> a.schema.id]
                   ELSE a.schema
              stored == IF a.locations # None /\ a.locations[1] # <<>>
                        THEN a.locations
                        ELSE IF "location" \in DOMAIN a.kwargs /\ a.kwargs.location # ""
                        THEN <<(<<a.kwargs.location>>)>>
                        ELSE <<>>
          IN  /\ ParametersOf(func') = ParametersOf(func) \o Converted(call')
              /\ Len(ParametersOf(func')) = Len(ParametersOf(func)) + Len(Converted(call'))
              /\ SchemasOf(func') =
                     Append(SchemasOf(func), [schema |-> S, locations |-> stored])
              /\ Len(SchemasOf(func')) = applied' ]_vars

\* the second use_kwargs, with locations ["query", "header"], has added its
\* descriptor behind the one of the first, which had no locations
C3_Witness ==
    /\ call.op = "use_kwargs" /\ ~call.raised
    /\ call.args.locations = <<(<<"query", "header">>)>>
    /\ Len(SchemasOf(func)) = 2
    /\ SchemasOf(func)[1].locations = None
    /\ SchemasOf(func)[2].locations = <<(<<"query", "header">>)>>
    /\ Len(Converted(call)) = 1
    /\ Len(ParametersOf(func)) = 2
    /\ ParametersOf(func)[1]["in"] = "body"
    /\ ParametersOf(func)[2]["in"] = "query"

\* C4 as stated: the resolved locations are the `locations` argument when
\* given, else the legacy `location` when given, in a one-element list, else
\* null; schema2parameters gets default_in = the first resolved location,
\* and no default_in when the resolved locations are null.
C4_Original ==
    call.op = "use_kwargs" =>
        LET a == call.args
            expected == IF a.locations # None THEN a.locations
                        ELSE IF "location" \in DOMAIN a.kwargs
                        THEN <<(<<a.kwargs.location>>)>>
                        ELSE <<>>
            passed == call.passed[1]
        IN  /\ ~call.raised => SchemasOf(func)[Len(SchemasOf(func))].locations = expected
            /\ expected # None =>
                  /\ "default_in" \in DOMAIN passed
                  /\ Len(expected[1]) > 0
                  /\ passed.default_in = expected[1][1]
            /\ expected = None => "default_in" \notin DOMAIN passed

\* C4, amended: the resolved locations are the `locations` argument when it
\* is given and not empty, else the legacy `location` when it is given and
\* not empty, in a one-element list, else null; schema2parameters gets
\* default_in = the first resolved location, and no default_in when the
\* resolved locations are null.
C4_LocationPrecedence ==
    call.op = "use_kwargs" =>
        LET a == call.args
            expected == IF a.locations # None /\ a.locations[1] # <<>>
                        THEN a.locations
                        ELSE IF "location" \in DOMAIN a.kwargs /\ a.kwargs.location # ""
                        THEN <<(<<a.kwargs.location>>)>>
                        ELSE <<>>
            passed == call.passed[1]
        IN  /\ ~call.raised => SchemasOf(func)[Len(SchemasOf(func))].locations = expected
            /\ expected # None =>
                  /\ "default_in" \in DOMAIN passed
                  /\ passed.default_in = expected[1][1]
            /\ expected = None => "default_in" \notin DOMAIN passed

\* use_kwargs(S, locations=["query", "header"], location="body") resolved to
\* ["query", "header"] and passed default_in = "query"
C4_Witness ==
    /\ call.op = "use_kwargs" /\ ~call.raised
    /\ call.args.locations = <<(<<"query", "header">>)>>
    /\ "location" \in DOMAIN call.args.kwargs
    /\ call.args.kwargs.location = "body"
    /\ SchemasOf(func)[Len(SchemasOf(func))].locations = <<(<<"query", "header">>)>>
    /\ call.passed[1].default_in = "query"

----------------------------------------------------------------------------
(* marshal_with *)

\* C5: marshal_with(S, code) that returns sets responses[str(code)] to a
\* descriptor made of this call alone (every key of it comes from the
\* collaborator's first descriptor for S or is the `description` argument),
\* and leaves the entries of the other codes, `parameters` and the schema
\* list as they were.
C5_ResponseReplacesOneCode ==
    [][ (call'.op = "marshal_with" /\ ~call'.raised) =>
          LET a == call'.args
              key == IF a.code = 200 THEN "200" ELSE "404"
              raw == Converted(call')[1]
              before == ResponsesOf(func)
              after == ResponsesOf(func')
          IN  /\ DOMAIN after = DOMAIN before \cup {key}
              /\ \A k \in DOMAIN after[key] :
                    \/ k \in DOMAIN raw /\ after[key][k] = raw[k]
                    \/ /\ k = "description"
                       /\ a.description # None
                       /\ after[key][k] = a.description[1]
              /\ \A c \in DOMAIN before \ {key} : after[c] = before[c]
              /\ ParametersOf(func') = ParametersOf(func)
              /\ HasSchemas(func') = HasSchemas(func)
              /\ SchemasOf(func') = SchemasOf(func) ]_vars

\* marshal_with(Item, 200) has replaced an entry: "200" holds Item's
\* descriptor and no description, next to a "404" entry, a parameter and a
\* schema entry
C5_Witness ==
    /\ call.op = "marshal_with" /\ ~call.raised
    /\ call.args.code = 200 /\ call.args.schema.id = "Item"
    /\ DOMAIN ResponsesOf(func) = {"200", "404"}
    /\ ResponsesOf(func)["200"] = [schema |-> "Item", headers |-> "X-Item"]
    /\ ResponsesOf(func)["404"].schema = "User"
    /\ Len(ParametersOf(func)) = 1
    /\ Len(SchemasOf(func)) = 1

\* C6 as stated: the descriptor marshal_with stored has no key outside
\* {schema, description, headers, examples}, and every such key of the
\* collaborator's first descriptor is in it with the collaborator's value.
C6_Original ==
    (call.op = "marshal_with" /\ ~call.raised) =>
        LET raw == Converted(call)[1]
            stored == ResponsesOf(func)[IF call.args.code = 200 THEN "200" ELSE "404"]
            whitelist == {"schema", "description", "headers", "examples"}
        IN  /\ DOMAIN stored \subseteq whitelist
            /\ \A k \in DOMAIN raw \cap whitelist :
                  k \in DOMAIN stored /\ stored[k] = raw[k]

\* C6, amended: the descriptor marshal_with stored has no key outside
\* {schema, description, headers, examples}, and every such key of the
\* collaborator's first descriptor is in it, with the collaborator's value
\* unless the key is `description` and a non-empty `description` argument
\* was given.
C6_ResponseWhitelist ==
    (call.op = "marshal_with" /\ ~call.raised) =>
        LET raw == Converted(call)[1]
            stored == ResponsesOf(func)[IF call.args.code = 200 THEN "200" ELSE "404"]
            whitelist == {"schema", "description", "headers", "examples"}
            given == call.args.description
        IN  /\ DOMAIN stored \subseteq whitelist
            /\ \A k \in DOMAIN raw \cap whitelist :
                  /\ k \in DOMAIN stored
                  /\ (k # "description" \/ given = None \/ given = <<"">>)
                        => stored[k] = raw[k]

\* the collaborator's descriptor had `name`, `in` and `required`, which are
\* not stored, and `schema` and `headers`, which are
C6_Witness ==
    /\ call.op = "marshal_with" /\ ~call.raised
    /\ call.args.code = 404
    /\ {"name", "in", "required", "schema", "headers"} \subseteq DOMAIN Converted(call)[1]
    /\ ResponsesOf(func)["404"] = [schema |-> "Item", headers |-> "X-Item"]

\* C7 as stated: when the `description` argument is not null the stored
\* description is the argument; when it is null the collaborator's
\* description, if any, is kept.
C7_Original ==
    (call.op = "marshal_with" /\ ~call.raised) =>
        LET raw == Converted(call)[1]
            stored == ResponsesOf(func)[IF call.args.code = 200 THEN "200" ELSE "404"]
            given == call.args.description
        IN  /\ given # None =>
                  "description" \in DOMAIN stored /\ stored.description = given[1]
            /\ (given = None /\ "description" \in DOMAIN raw) =>
                  "description" \in DOMAIN stored /\ stored.description = raw.description

\* C7, amended: when the `description` argument is neither null nor empty
\* the stored description is the argument; when it is null or empty the
\* collaborator's description, if any, is kept, and there is no description
\* when the collaborator produced none.
C7_DescriptionOverlay ==
    (call.op = "marshal_with" /\ ~call.raised) =>
        LET raw == Converted(call)[1]
            stored == ResponsesOf(func)[IF call.args.code = 200 THEN "200" ELSE "404"]
            given == call.args.description
            supplied == given # None /\ given # <<"">>
        IN  /\ supplied =>
                  "description" \in DOMAIN stored /\ stored.description = given[1]
            /\ (~supplied /\ "description" \in DOMAIN raw) =>
                  "description" \in DOMAIN stored /\ stored.description = raw.description
            /\ (~supplied /\ "description" \notin DOMAIN raw) =>
                  "description" \notin DOMAIN stored

\* description="Not found" has overwritten the collaborator's "a user"
C7_Witness ==
    /\ call.op = "marshal_with" /\ ~call.raised
    /\ call.args.code = 404
    /\ call.args.description = <<"Not found">>
    /\ Converted(call)[1].description = "a user"
    /\ ResponsesOf(func)["404"].description = "Not found"

----------------------------------------------------------------------------
(* The three decorators together *)

\* C8: no application of docs, use_kwargs or marshal_with removes an entry
\* of `parameters`, a key of `responses` or an entry of the schema list.
C8_AppendOnly ==
    [][ /\ HasRecord(func) => HasRecord(func')
        /\ IsPrefix(ParametersOf(func), ParametersOf(func'))
        /\ DOMAIN ResponsesOf(func) \subseteq DOMAIN ResponsesOf(func')
        /\ HasSchemas(func) => HasSchemas(func')
        /\ IsPrefix(SchemasOf(func), SchemasOf(func')) ]_vars

\* C9: the schema list exists exactly when use_kwargs has been applied (and
\* returned) at least once, it has one entry per such application, and an
\* application of docs or marshal_with leaves it as it was, creating nothing
\* but the doc record.
C9_SchemasOnlyByUseKwargs ==
    /\ [](/\ HasSchemas(func) <=> applied > 0
          /\ Len(SchemasOf(func)) = applied)
    /\ [][ call'.op \in {"docs", "marshal_with"} =>
             /\ HasSchemas(func') = HasSchemas(func)
             /\ SchemasOf(func') = SchemasOf(func)
             /\ HasRecord(func')
             /\ DOMAIN func' = DOMAIN func \cup {"__apispec__"} ]_vars

\* all three decorators have been applied; the schema list holds the two
\* entries of the two use_kwargs, and the marshal_with applied last left it
C9_Witness ==
    /\ call.op = "marshal_with" /\ ~call.raised
    /\ "produces" \in DOMAIN func["__apispec__"]
    /\ "200" \in DOMAIN ResponsesOf(func)
    /\ Len(SchemasOf(func)) = 2
    /\ applied = 2

\* C10 as stated: an application of use_kwargs or marshal_with that raises
\* leaves the handler's records exactly as they were.
C10_Original ==
    [][ call'.raised => func' = func ]_vars

\* C10, amended: an application of use_kwargs or marshal_with that raises
\* adds no entry to `parameters`, `responses` or the schema list and creates
\* no schema list; use_kwargs leaves the handler exactly as it was, and
\* marshal_with does too but for the empty doc record it creates when the
\* handler has none.
C10_FailureAddsNoEntry ==
    [][ call'.raised =>
          /\ call'.op \in {"use_kwargs", "marshal_with"}
          /\ HasSchemas(func') = HasSchemas(func)
          /\ SchemasOf(func') = SchemasOf(func)
          /\ ParametersOf(func') = ParametersOf(func)
          /\ ResponsesOf(func') = ResponsesOf(func)
          /\ (HasRecord(func) \/ call'.op = "use_kwargs") => func' = func
          /\ (~HasRecord(func) /\ call'.op = "marshal_with") =>
                func' = [a \in {"__apispec__"} |->
                           [parameters |-> <<>>, responses |-> <<>>, docked |-> <<>>]] ]_vars

\* marshal_with raised on an undecorated handler and left it with an empty
\* doc record
C10_Witness ==
    /\ call.op = "marshal_with" /\ call.raised
    /\ func = [a \in {"__apispec__"} |->
                 [parameters |-> <<>>, responses |-> <<>>, docked |-> <<>>]]

====
